---- MODULE Spec2Model ----
(***************************************************************************)
(* The contact auditor of cmd/contact-auditor/main.go: run() streams the   *)
(* rows of the audit query, decodes each row's contact payload, validates  *)
(* the decoded contacts and writes one diagnostic text per problem to the  *)
(* configured destinations.                                                *)
(*                                                                         *)
(* Strings and byte slices are sequences of one-character strings, so that *)
(* formatting (%d, %s, %q) and JSON decoding are computed character by     *)
(* character.  The value Nil stands for Go's nil error.                    *)
(***************************************************************************)
EXTENDS Integers, Sequences, FiniteSets, TLC

(* ------------------------------ bounds --------------------------------- *)

\* Longest result set the audit query returns.
MaxRows == 2

\* Largest buffer of the channel handed to run().
MaxChanCap == 1

\* Longest contact list handed to validateContacts on its own.
MaxContacts == 2

\* Most rows of the certificates table.
MaxCertificates == 2

\* The k-th row of the result set carries the id IdBase + k.
IdBase == 8

(* ------------------------------ strings -------------------------------- *)

Nil == <<"<nil>">>

TAB == "\t"
NL == "\n"
DQ == "\""
BS == "\\"

Digits == <<"0", "1", "2", "3", "4", "5", "6", "7", "8", "9">>

DigitSet == {Digits[i] : i \in 1..Len(Digits)}

RECURSIVE Concat(_)
\* The concatenation of a sequence of strings.
Concat(ss) == IF ss = <<>> THEN <<>> ELSE Head(ss) \o Concat(Tail(ss))

RECURSIVE Itoa(_)
\* fmt's %d of a non-negative integer.
Itoa(n) == IF n < Len(Digits) THEN <<Digits[n + 1]>>
           ELSE Itoa(n \div Len(Digits)) \o <<Digits[(n % Len(Digits)) + 1]>>

\* strconv.Quote's rendering of one character of the model's alphabet.
QuoteChar(c) ==
  IF c = DQ THEN <<BS, DQ>>
  ELSE IF c = BS THEN <<BS, BS>>
  ELSE IF c = NL THEN <<BS, "n">>
  ELSE IF c = TAB THEN <<BS, "t">>
  ELSE <<c>>

\* fmt's %q of a string, a byte slice or an error's message.
Quote(s) == <<DQ>> \o Concat([i \in 1..Len(s) |-> QuoteChar(s[i])]) \o <<DQ>>

\* strings.HasPrefix
HasPrefix(s, p) == Len(s) >= Len(p) /\ SubSeq(s, 1, Len(p)) = p

\* strings.TrimPrefix
TrimPrefix(s, p) == IF HasPrefix(s, p) THEN SubSeq(s, Len(p) + 1, Len(s)) ELSE s

\* The number of newline characters of a text: its number of lines when every
\* line is newline-terminated.
LineCount(s) == Cardinality({i \in 1..Len(s) : s[i] = NL})

MailtoPrefix == <<"m", "a", "i", "l", "t", "o", ":">>

MissingPrefixMsg == <<"m", "i", "s", "s", "i", "n", "g", " ", "'", "m", "a", "i", "l", "t", "o", ":", "'", " ", "p", "r", "e", "f", "i", "x">>

ValidationTag == <<"v", "a", "l", "i", "d", "a", "t", "i", "o", "n">>

UnmarshalTag == <<"u", "n", "m", "a", "r", "s", "h", "a", "l">>

(* --------------------------- encoding/json ----------------------------- *)
(* json.Unmarshal into a []string, for payloads over the alphabet of the   *)
(* model: arrays of string, number and null elements without whitespace,   *)
(* and the top-level values null, string and number.  A syntax error wins  *)
(* over a type error, as the decoder validates the whole input first.      *)

JsonEOFMsg == <<"u", "n", "e", "x", "p", "e", "c", "t", "e", "d", " ", "e", "n", "d", " ", "o", "f", " ", "J", "S", "O", "N", " ", "i", "n", "p", "u", "t">>

InvalidCharMsg == <<"i", "n", "v", "a", "l", "i", "d", " ", "c", "h", "a", "r", "a", "c", "t", "e", "r", " ">>

CtxBeginValue == <<"l", "o", "o", "k", "i", "n", "g", " ", "f", "o", "r", " ", "b", "e", "g", "i", "n", "n", "i", "n", "g", " ", "o", "f", " ", "v", "a", "l", "u", "e">>

CtxAfterElement == <<"a", "f", "t", "e", "r", " ", "a", "r", "r", "a", "y", " ", "e", "l", "e", "m", "e", "n", "t">>

CtxAfterTop == <<"a", "f", "t", "e", "r", " ", "t", "o", "p", "-", "l", "e", "v", "e", "l", " ", "v", "a", "l", "u", "e">>

CtxEscape == <<"i", "n", " ", "s", "t", "r", "i", "n", "g", " ", "e", "s", "c", "a", "p", "e", " ", "c", "o", "d", "e">>

CtxStringLit == <<"i", "n", " ", "s", "t", "r", "i", "n", "g", " ", "l", "i", "t", "e", "r", "a", "l">>

CannotUnmarshalMsg == <<"j", "s", "o", "n", ":", " ", "c", "a", "n", "n", "o", "t", " ", "u", "n", "m", "a", "r", "s", "h", "a", "l", " ">>

IntoGoValueMsg == <<" ", "i", "n", "t", "o", " ", "G", "o", " ", "v", "a", "l", "u", "e", " ", "o", "f", " ", "t", "y", "p", "e", " ">>

GoString == <<"s", "t", "r", "i", "n", "g">>

GoStringSlice == <<"[", "]", "s", "t", "r", "i", "n", "g">>

JsonNull == <<"n", "u", "l", "l">>

JsonNumber == <<"n", "u", "m", "b", "e", "r">>

\* json.SyntaxError for an unexpected character.
JsonInvalidChar(c, ctx) ==
  InvalidCharMsg \o <<"'">> \o (IF c = "'" THEN <<BS, "'">> ELSE IF c = DQ THEN <<DQ>> ELSE QuoteChar(c))
    \o <<"'", " ">> \o ctx

\* json.UnmarshalTypeError
JsonTypeError(value, gotype) == CannotUnmarshalMsg \o value \o IntoGoValueMsg \o gotype

JsonFail(msg) == [ok |-> FALSE, err |-> msg]

RECURSIVE JsonScanString(_, _, _)
\* The string literal whose opening quote precedes position i.
JsonScanString(b, i, acc) ==
  IF i > Len(b) THEN JsonFail(JsonEOFMsg)
  ELSE IF b[i] = DQ THEN [ok |-> TRUE, kind |-> "string", val |-> acc, next |-> i + 1]
  ELSE IF b[i] = BS THEN
    IF i + 1 > Len(b) THEN JsonFail(JsonEOFMsg)
    ELSE IF b[i + 1] = DQ THEN JsonScanString(b, i + 2, Append(acc, DQ))
    ELSE IF b[i + 1] = BS THEN JsonScanString(b, i + 2, Append(acc, BS))
    ELSE IF b[i + 1] = "n" THEN JsonScanString(b, i + 2, Append(acc, NL))
    ELSE IF b[i + 1] = "t" THEN JsonScanString(b, i + 2, Append(acc, TAB))
    ELSE JsonFail(JsonInvalidChar(b[i + 1], CtxEscape))
  ELSE IF b[i] \in {NL, TAB} THEN JsonFail(JsonInvalidChar(b[i], CtxStringLit))
  ELSE JsonScanString(b, i + 1, Append(acc, b[i]))

RECURSIVE JsonScanNumber(_, _)
\* The position after the digits that start at position i.
JsonScanNumber(b, i) ==
  IF i <= Len(b) /\ b[i] \in DigitSet THEN JsonScanNumber(b, i + 1) ELSE i

\* The JSON value that starts at position i.
JsonValue(b, i) ==
  IF i > Len(b) THEN JsonFail(JsonEOFMsg)
  ELSE IF b[i] = DQ THEN JsonScanString(b, i + 1, <<>>)
  ELSE IF b[i] \in DigitSet THEN
    [ok |-> TRUE, kind |-> "number", val |-> <<>>, next |-> JsonScanNumber(b, i)]
  ELSE IF b[i] = "n" THEN
    IF i + 3 > Len(b) THEN JsonFail(JsonEOFMsg)
    ELSE IF SubSeq(b, i, i + 3) = JsonNull
      THEN [ok |-> TRUE, kind |-> "null", val |-> <<>>, next |-> i + 4]
      ELSE JsonFail(JsonInvalidChar(b[i + 1], <<"i", "n", " ", "l", "i", "t", "e", "r", "a", "l", " ", "n", "u", "l", "l">>))
  ELSE JsonFail(JsonInvalidChar(b[i], CtxBeginValue))

RECURSIVE JsonElements(_, _, _, _)

\* After the element v: the separator at position j decides how the array
\* goes on.  acc holds the strings decoded so far, typeErr tells whether an
\* element was no string.
JsonSeparator(b, j, acc, typeErr) ==
  IF j > Len(b) THEN JsonFail(JsonEOFMsg)
  ELSE IF b[j] = "," THEN JsonElements(b, j + 1, acc, typeErr)
  ELSE IF b[j] = "]" THEN [ok |-> TRUE, val |-> acc, typeErr |-> typeErr, next |-> j + 1]
  ELSE JsonFail(JsonInvalidChar(b[j], CtxAfterElement))

\* The element v has been read.
JsonElement(b, v, acc, typeErr) ==
  IF ~v.ok THEN v
  ELSE JsonSeparator(b, v.next, Append(acc, v.val), typeErr \/ v.kind = "number")

\* The array elements from position i on.
JsonElements(b, i, acc, typeErr) == JsonElement(b, JsonValue(b, i), acc, typeErr)

\* The outcome of decoding a top-level array a.
JsonArrayResult(b, a) ==
  IF ~a.ok THEN [contacts |-> <<>>, err |-> a.err]
  ELSE IF a.next <= Len(b)
    THEN [contacts |-> <<>>, err |-> JsonInvalidChar(b[a.next], CtxAfterTop)]
  ELSE IF a.typeErr
    THEN [contacts |-> a.val, err |-> JsonTypeError(JsonNumber, GoString)]
  ELSE [contacts |-> a.val, err |-> Nil]

\* The outcome of decoding a top-level value v that is no array.
JsonScalarResult(b, v) ==
  IF ~v.ok THEN [contacts |-> <<>>, err |-> v.err]
  ELSE IF v.next <= Len(b)
    THEN [contacts |-> <<>>, err |-> JsonInvalidChar(b[v.next], CtxAfterTop)]
  ELSE IF v.kind = "null" THEN [contacts |-> <<>>, err |-> Nil]
  ELSE [contacts |-> <<>>,
        err |-> JsonTypeError(IF v.kind = "string" THEN GoString ELSE JsonNumber, GoStringSlice)]

\* json.Unmarshal(b, &contacts) for contacts of type []string.
JsonUnmarshal(b) ==
  IF Len(b) = 0 THEN [contacts |-> <<>>, err |-> JsonEOFMsg]
  ELSE IF b[1] = "[" THEN
    JsonArrayResult(b, IF Len(b) >= 2 /\ b[2] = "]"
                         THEN [ok |-> TRUE, val |-> <<>>, typeErr |-> FALSE, next |-> 3]
                         ELSE JsonElements(b, 2, <<>>, FALSE))
  ELSE JsonScalarResult(b, JsonValue(b, 1))

(* ------------------------------ inputs --------------------------------- *)

ContactGood == <<"m", "a", "i", "l", "t", "o", ":", "a", "@", "b", ".", "c">>

ContactBad == <<"m", "a", "i", "l", "t", "o", ":", "x">>

ContactTel == <<"t", "e", "l", ":", "1">>

ContactBare == <<"a", "@", "b", ".", "c">>

ContactQuote == <<"a", "\"", "\n", "b">>

\* The contact strings the lists handed to validateContacts are made of.
ContactStrings == {ContactGood, ContactBad, ContactTel, ContactBare, ContactQuote}

PayloadGood == <<"[", "\"", "m", "a", "i", "l", "t", "o", ":", "a", "@", "b", ".", "c", "\"", "]">>

PayloadMixed == <<"[", "\"", "t", "e", "l", ":", "1", "\"", ",", "\"", "m", "a", "i", "l", "t", "o", ":", "x", "\"", "]">>

PayloadNumber == <<"[", "1", "]">>

PayloadTruncated == <<"[", "\"", "t", "e", "l", ":", "1", "\"">>

\* The contact payloads a row of the result set may carry.
Payloads == {PayloadGood, PayloadMixed, PayloadNumber, PayloadTruncated}

\* The createdAt column as the driver renders it.
CreatedAt == <<"2", "0", "2", "1", "-", "0", "6", "-", "0", "1", " ", "0", "0", ":", "0", "0", ":", "0", "0">>

\* The strings policy.ValidEmail may be asked about.
Addresses == {TrimPrefix(c, MailtoPrefix) : c \in ContactStrings}

ErrNotAnAddress == <<"n", "o", "t", " ", "a", " ", "v", "a", "l", "i", "d", " ", "e", "-", "m", "a", "i", "l", " ", "a", "d", "d", "r", "e", "s", "s">>

ErrForbidden == <<"b", "a", "d", "\n", "\"", "d", "o", "m", "a", "i", "n", "\"">>

\* What policy.ValidEmail may answer: nil or an error.
Verdicts == {Nil, ErrNotAnAddress, ErrForbidden}

\* The errors of the store: db.Query, the driver's Next, rows.Scan and the
\* driver's Close.
ErrQuery == <<"query failed">>

ErrDriverNext == <<"driver: bad connection">>

ErrScan == <<"sql: Scan error">>

ErrDriverClose == <<"driver: close failed">>

\* io.EOF, the driver's answer once the result set is exhausted.
EOF == <<"EOF">>

(* --------------------------- the audit query --------------------------- *)
(* SELECT DISTINCT r.id, r.contact, r.createdAt FROM registrations AS r     *)
(* INNER JOIN certificates AS c on c.registrationID = r.id                  *)
(* WHERE r.contact NOT IN ('[]', 'null')                                    *)

\* SQL's NULL in the contact column.
SqlNull == <<"NULL">>

\* The literals of the NOT IN list.
EmptySentinels == {<<"[", "]">>, <<"n", "u", "l", "l">>}

\* NOT IN comparing NULL like any other value.
SqlNotInTwoValued(v, list) == IF v \in list THEN "false" ELSE "true"

\* v NOT IN (list): unknown when v is NULL.
SqlNotIn(v, list) ==
  IF v = SqlNull THEN "unknown" ELSE IF v \in list THEN "false" ELSE "true"

\* registrations AS r INNER JOIN certificates AS c on c.registrationID = r.id:
\* one joined row per pair of a registration and a certificate of it.
Joined(s) ==
  {x \in {[r |-> s.registrations[i], c |-> j] :
            i \in DOMAIN s.registrations, j \in DOMAIN s.certificates} :
     s.certificates[x.c].registrationID = x.r.id}

\* WHERE keeps a joined row only when its condition is true.
Where(x) == SqlNotIn(x.r.contact, EmptySentinels) = "true"

\* The select list r.id, r.contact, r.createdAt of a joined row.
SelectList(x) == [id |-> x.r.id, contact |-> x.r.contact, createdAt |-> x.r.createdAt]

\* The rows of the query; DISTINCT makes them a set.
AuditQuery(s) == {SelectList(x) : x \in {y \in Joined(s) : Where(y)}}

RECURSIVE Orderings(_)
\* The orders in which a cursor can hand out the rows: the query has no
\* ORDER BY.
Orderings(S) ==
  IF S = {} THEN {<<>>}
  ELSE UNION {{<<x>> \o q : q \in Orderings(S \ {x})} : x \in S}

(* --------------------------- unmarshalContact -------------------------- *)

\* unmarshalContact returning what was decoded along with the error.
unmarshalReturnPartial(r) == r

\* Lines 36-39 of unmarshalContact: no contacts along with an error.
unmarshalReturn(r) ==
  IF r.err # Nil THEN [contacts |-> <<>>, err |-> r.err]
  ELSE [contacts |-> r.contacts, err |-> Nil]

\* json.Unmarshal of each payload of the model, computed once.
Unmarshalled == [p \in Payloads |-> JsonUnmarshal(p)]

\* unmarshalContact: the decoded contacts, or no contacts and the error.
unmarshalContact(contact) == unmarshalReturn(Unmarshalled[contact])

(* ------------------------------- state --------------------------------- *)

VARIABLES
  rowsData,       \* the result set of the audit query: a sequence of rows
  emailVerdict,   \* policy.ValidEmail, as a function of the address
  writeToStdout,  \* contactAuditor.writeToStdout
  resultsFile,    \* contactAuditor.resultsFile is non-nil
  resChan,        \* run's parameter: [isNil, cap, buf, closed]
  consumer,       \* the goroutine at the other end of resChan
  received,       \* what the consumer received, in order
  pc,             \* run's position
  rows,           \* the *sql.Rows of the query: [open, closed, pos, lasterr]
  ret,            \* run's return value once pc = "returned"
  sink,           \* the calls of writeResults: [row, text]
  stdoutOut,      \* the texts printed to stdout
  fileOut,        \* the texts written to the results file
  logged,         \* the destinations logger.Errf reported a failed write of
  srcErr,         \* the store operation that failed, and the row it failed at
  sent,           \* the results run put on resChan, in order
  vIn,            \* validateContacts called on its own: its arguments
  vOut,           \* and what it returned
  firstRun,       \* what an earlier run of the auditor wrote and returned
  store           \* the tables the query reads: [registrations, certificates]

vars == <<rowsData, emailVerdict, writeToStdout, resultsFile, resChan, consumer,
          received, pc, rows, ret, sink, stdoutOut, fileOut, logged, srcErr,
          sent, vIn, vOut, firstRun, store>>

(* --------------------------- policy, validate -------------------------- *)

\* policy.ValidEmail(address): nil, or the error's message.
ValidEmail(address) == emailVerdict[address]

\* writeProb formatting the contact with %s instead of %q.
writeProbUnquoted(id, createdAt, contact, prob) ==
  Concat(<<Itoa(id), <<TAB>>, createdAt, <<TAB>>, ValidationTag, <<TAB>>,
           contact, <<TAB>>, Quote(prob), <<NL>>>>)

\* The writeProb helper of validateContacts: one line of the buffer.
writeProb(id, createdAt, contact, prob) ==
  Concat(<<Itoa(id), <<TAB>>, createdAt, <<TAB>>, ValidationTag, <<TAB>>,
           Quote(contact), <<TAB>>, Quote(prob), <<NL>>>>)

\* validateContact asking policy.ValidEmail before it looks at the prefix.
validateContactEmailFirst(id, createdAt, contact) ==
  IF ValidEmail(TrimPrefix(contact, MailtoPrefix)) # Nil
    THEN writeProb(id, createdAt, contact, ValidEmail(TrimPrefix(contact, MailtoPrefix)))
    ELSE IF HasPrefix(contact, MailtoPrefix) THEN <<>>
    ELSE writeProb(id, createdAt, contact, MissingPrefixMsg)

\* validateContact reporting the address it handed to policy.ValidEmail in
\* place of the contact.
validateContactStripped(id, createdAt, contact) ==
  IF HasPrefix(contact, MailtoPrefix)
    THEN (IF ValidEmail(TrimPrefix(contact, MailtoPrefix)) # Nil
            THEN writeProb(id, createdAt, TrimPrefix(contact, MailtoPrefix),
                           ValidEmail(TrimPrefix(contact, MailtoPrefix)))
            ELSE <<>>)
    ELSE writeProb(id, createdAt, contact, MissingPrefixMsg)

\* One iteration of validateContacts' loop: what it appends to the buffer.
validateContact(id, createdAt, contact) ==
  IF HasPrefix(contact, MailtoPrefix)
    THEN LET err == ValidEmail(TrimPrefix(contact, MailtoPrefix))
         IN IF err # Nil THEN writeProb(id, createdAt, contact, err) ELSE <<>>
    ELSE writeProb(id, createdAt, contact, MissingPrefixMsg)

\* validateContacts' buffer after the loop over the contacts.
probsBuff(id, createdAt, contacts) ==
  Concat([i \in 1..Len(contacts) |-> validateContact(id, createdAt, contacts[i])])

\* validateContacts returning an error whatever the buffer holds.
validateReturnAlways(buff) == buff

\* Lines 63-66 of validateContacts: nil, or the error made of the buffer.
validateReturn(buff) == IF Len(buff) # 0 THEN buff ELSE Nil

\* validateContacts: nil, or one error that holds every line.
validateContacts(id, createdAt, contacts) ==
  validateReturn(probsBuff(id, createdAt, contacts))

\* The text run formats for a payload that does not decode.
unmarshalLine(id, createdAt, contact, err) ==
  Concat(<<Itoa(id), <<TAB>>, createdAt, <<TAB>>, UnmarshalTag, <<TAB>>,
           Quote(contact), <<TAB>>, Quote(err), <<NL>>>>)

(* ----------------------------- database/sql ---------------------------- *)
(* The *sql.Rows of the query.  Next asks the driver for the next row; when *)
(* the driver answers with an error, or with io.EOF and no further result  *)
(* set, Next records it in lasterr, closes the Rows itself and returns      *)
(* false.  Close on Rows that are already closed does nothing and returns   *)
(* nil; otherwise it returns the error of the driver's Close.               *)

NoRows == [open |-> FALSE, closed |-> FALSE, pos |-> 0, lasterr |-> Nil]

\* The outcomes of rows.Next(): the Rows afterwards and the returned bool.
RowsNext(rs) ==
  IF rs.closed THEN {[rows |-> rs, ok |-> FALSE]}
  ELSE (IF rs.pos < Len(rowsData)
          THEN {[rows |-> [rs EXCEPT !.pos = @ + 1], ok |-> TRUE]}
          ELSE {[rows |-> [rs EXCEPT !.lasterr = EOF, !.closed = TRUE], ok |-> FALSE],
                \* the driver reports a further result set: the Rows stay open
                [rows |-> [rs EXCEPT !.lasterr = EOF], ok |-> FALSE]})
       \cup {[rows |-> [rs EXCEPT !.lasterr = ErrDriverNext, !.closed = TRUE], ok |-> FALSE]}

\* The outcomes of rows.Close(): the Rows afterwards and the returned error.
RowsClose(rs) ==
  IF rs.closed THEN {[rows |-> rs, err |-> Nil]}
  ELSE {[rows |-> [rs EXCEPT !.closed = TRUE], err |-> e] : e \in {Nil, ErrDriverClose}}

(* ------------------------------ the sink ------------------------------- *)

\* writeResults giving up on the file once the write to stdout has failed.
writeResultsStopOnFailure(out, result, okStdout, okFile) ==
  [stdout |-> IF writeToStdout /\ okStdout THEN Append(out.stdout, result) ELSE out.stdout,
   file |-> IF resultsFile /\ okFile /\ (writeToStdout => okStdout)
              THEN Append(out.file, result) ELSE out.file,
   logged |-> out.logged
              \o (IF writeToStdout /\ ~okStdout THEN <<"stdout">> ELSE <<>>)
              \o (IF resultsFile /\ ~okFile /\ (writeToStdout => okStdout)
                    THEN <<"file">> ELSE <<>>)]

\* writeResults(result): what each destination holds afterwards, okStdout and
\* okFile telling whether the write to that destination succeeds.
writeResults(out, result, okStdout, okFile) ==
  [stdout |-> IF writeToStdout /\ okStdout THEN Append(out.stdout, result) ELSE out.stdout,
   file |-> IF resultsFile /\ okFile THEN Append(out.file, result) ELSE out.file,
   logged |-> out.logged
              \o (IF writeToStdout /\ ~okStdout THEN <<"stdout">> ELSE <<>>)
              \o (IF resultsFile /\ ~okFile THEN <<"file">> ELSE <<>>)]

RECURSIVE writeAll(_, _, _)
\* The calls of writeResults of one iteration, in order.
writeAll(out, texts, oks) ==
  IF texts = <<>> THEN out
  ELSE writeAll(writeResults(out, Head(texts), Head(oks)[1], Head(oks)[2]), Tail(texts), Tail(oks))

(* -------------------------------- run ---------------------------------- *)

\* The result run builds for the row the cursor stands on.
result(row) == [id |-> row.id, contacts |-> unmarshalContact(row.contact).contacts,
                createdAt |-> row.createdAt]

\* Lines 123-126: the text written for a validation error, if any.
validationTexts(err) == IF err # Nil THEN <<err>> ELSE <<>>

\* Lines 119-126: the texts written once the payload is decoded into u.
decodedTexts(row, u) ==
  (IF u.err # Nil THEN <<unmarshalLine(row.id, row.createdAt, row.contact, u.err)>> ELSE <<>>)
    \o validationTexts(validateContacts(row.id, row.createdAt, u.contacts))

\* The texts one iteration of run's loop hands to writeResults, in order.
rowTexts(row) == decodedTexts(row, unmarshalContact(row.contact))

\* BeginAuditQuery going on to the loop after the query failed.
BeginAuditQueryGoesOn ==
  /\ pc = "start"
  /\ \E err \in {Nil, ErrQuery} :
       /\ pc' = "next"
       /\ rows' = [NoRows EXCEPT !.open = TRUE]
       /\ srcErr' = IF err # Nil THEN [op |-> "open", row |-> 0] ELSE srcErr
       /\ ret' = ret
  /\ UNCHANGED <<rowsData, emailVerdict, writeToStdout, resultsFile, resChan, consumer,
                 received, sink, stdoutOut, fileOut, logged, sent, vIn, vOut,
                 firstRun, store>>

\* Lines 103-107: the query is executed; its error is returned at once.
BeginAuditQuery ==
  /\ pc = "start"
  /\ \E err \in {Nil, ErrQuery} :
       IF err # Nil
         THEN /\ pc' = "returned"
              /\ ret' = err
              /\ srcErr' = [op |-> "open", row |-> 0]
              /\ rows' = rows
         ELSE /\ pc' = "next"
              /\ rows' = [NoRows EXCEPT !.open = TRUE]
              /\ UNCHANGED <<ret, srcErr>>
  /\ UNCHANGED <<rowsData, emailVerdict, writeToStdout, resultsFile, resChan, consumer,
                 received, sink, stdoutOut, fileOut, logged, sent, vIn, vOut, firstRun, store>>

\* LoopNext asking the driver again after the driver failed.
LoopNextRetries ==
  /\ pc = "next"
  /\ \E o \in RowsNext(rows) :
       IF o.rows.lasterr = ErrDriverNext
         THEN /\ rows' = rows
              /\ pc' = "next"
              /\ srcErr' = [op |-> "next", row |-> rows.pos + 1]
         ELSE /\ rows' = o.rows
              /\ pc' = IF o.ok THEN "scan" ELSE "close"
              /\ srcErr' = srcErr
  /\ UNCHANGED <<rowsData, emailVerdict, writeToStdout, resultsFile, resChan, consumer,
                 received, ret, sink, stdoutOut, fileOut, logged, sent, vIn, vOut,
                 firstRun, store>>

\* Line 109: the loop condition rows.Next().
LoopNext ==
  /\ pc = "next"
  /\ \E o \in RowsNext(rows) :
       /\ rows' = o.rows
       /\ pc' = IF o.ok THEN "scan" ELSE "close"
       /\ srcErr' = IF o.rows.lasterr = ErrDriverNext
                      THEN [op |-> "next", row |-> rows.pos + 1] ELSE srcErr
  /\ UNCHANGED <<rowsData, emailVerdict, writeToStdout, resultsFile, resChan, consumer,
                 received, ret, sink, stdoutOut, fileOut, logged, sent, vIn, vOut, firstRun, store>>

\* The destinations after the writes.
Written(out) ==
  /\ stdoutOut' = out.stdout
  /\ fileOut' = out.file
  /\ logged' = out.logged

\* WriteTexts putting the texts of the row ahead of those written before.
WriteTextsNewestFirst(texts) ==
  /\ \E oks \in [1..Len(texts) -> BOOLEAN \X BOOLEAN] :
       Written(writeAll([stdout |-> stdoutOut, file |-> fileOut, logged |-> logged], texts, oks))
  /\ sink' = [i \in 1..Len(texts) |-> [row |-> rows.pos, text |-> texts[i]]] \o sink

\* Lines 118-126: the texts of the row are handed to writeResults; each write
\* to a destination succeeds or fails.
WriteTexts(texts) ==
  /\ \E oks \in [1..Len(texts) -> BOOLEAN \X BOOLEAN] :
       Written(writeAll([stdout |-> stdoutOut, file |-> fileOut, logged |-> logged], texts, oks))
  /\ sink' = sink \o [i \in 1..Len(texts) |-> [row |-> rows.pos, text |-> texts[i]]]

\* Lines 113-116: rows.Scan fails and its error is returned at once.
ScanFails ==
  /\ pc' = "returned"
  /\ ret' = ErrScan
  /\ srcErr' = [op |-> "scan", row |-> rows.pos]
  /\ UNCHANGED <<sink, stdoutOut, fileOut, logged>>

\* LoopBody with the Scan error checked only after the row's texts are
\* written.
LoopBodyLateScanCheck ==
  /\ pc = "scan"
  /\ WriteTexts(rowTexts(rowsData[rows.pos]))
  /\ \/ /\ pc' = "returned"
        /\ ret' = ErrScan
        /\ srcErr' = [op |-> "scan", row |-> rows.pos]
     \/ /\ pc' = IF resChan.isNil THEN "next" ELSE "send"
        /\ UNCHANGED <<ret, srcErr>>
  /\ UNCHANGED <<rowsData, emailVerdict, writeToStdout, resultsFile, resChan, consumer,
                 received, rows, sent, vIn, vOut, firstRun, store>>

\* LoopBody moving on to the next row right after a payload failed to decode.
LoopBodySkipUndecoded ==
  /\ pc = "scan"
  /\ \/ ScanFails
     \/ /\ WriteTexts(rowTexts(rowsData[rows.pos]))
        /\ pc' = IF resChan.isNil \/ unmarshalContact(rowsData[rows.pos].contact).err # Nil
                   THEN "next" ELSE "send"
        /\ UNCHANGED <<ret, srcErr>>
  /\ UNCHANGED <<rowsData, emailVerdict, writeToStdout, resultsFile, resChan, consumer,
                 received, rows, sent, vIn, vOut, firstRun, store>>

\* LoopBody without the nil check of line 129: the send is always attempted.
LoopBodyAlwaysSend ==
  /\ pc = "scan"
  /\ \/ ScanFails
     \/ /\ WriteTexts(rowTexts(rowsData[rows.pos]))
        /\ pc' = "send"
        /\ UNCHANGED <<ret, srcErr>>
  /\ UNCHANGED <<rowsData, emailVerdict, writeToStdout, resultsFile, resChan, consumer,
                 received, rows, sent, vIn, vOut, firstRun, store>>

\* LoopBody rewriting the payload of the row it has audited in the store.
LoopBodyRepairsRecord ==
  /\ pc = "scan"
  /\ \/ ScanFails /\ rowsData' = rowsData
     \/ /\ WriteTexts(rowTexts(rowsData[rows.pos]))
        /\ pc' = IF resChan.isNil THEN "next" ELSE "send"
        /\ rowsData' = [rowsData EXCEPT ![rows.pos].contact = PayloadGood]
        /\ UNCHANGED <<ret, srcErr>>
  /\ UNCHANGED <<emailVerdict, writeToStdout, resultsFile, resChan, consumer,
                 received, rows, sent, vIn, vOut, firstRun, store>>

\* LoopBody writing the texts only when run was handed no channel.
LoopBodyTapInsteadOfSink ==
  /\ pc = "scan"
  /\ \/ ScanFails
     \/ /\ WriteTexts(IF resChan.isNil THEN rowTexts(rowsData[rows.pos]) ELSE <<>>)
        /\ pc' = IF resChan.isNil THEN "next" ELSE "send"
        /\ UNCHANGED <<ret, srcErr>>
  /\ UNCHANGED <<rowsData, emailVerdict, writeToStdout, resultsFile, resChan, consumer,
                 received, rows, sent, vIn, vOut, firstRun, store>>

\* Lines 110-131: the row is scanned; a Scan error is returned at once.
\* Otherwise the payload is decoded, the contacts are validated and the texts
\* are written, and the send comes next when run was handed a channel.
LoopBody ==
  /\ pc = "scan"
  /\ \/ ScanFails
     \/ /\ WriteTexts(rowTexts(rowsData[rows.pos]))
        /\ pc' = IF resChan.isNil THEN "next" ELSE "send"
        /\ UNCHANGED <<ret, srcErr>>
  /\ UNCHANGED <<rowsData, emailVerdict, writeToStdout, resultsFile, resChan, consumer,
                 received, rows, sent, vIn, vOut, firstRun, store>>

\* resChan <- res
Send(res) ==
  /\ IF resChan.cap > 0
       THEN /\ Len(resChan.buf) < resChan.cap
            /\ resChan' = [resChan EXCEPT !.buf = Append(@, res)]
            /\ received' = received
       ELSE /\ consumer = "receiving"
            /\ received' = Append(received, res)
            /\ resChan' = resChan
  /\ sent' = Append(sent, res)

\* Lines 129-131: the send on resChan.  It waits until the buffer has room
\* or, on an unbuffered channel, until the consumer receives.
LoopSend ==
  /\ pc = "send"
  /\ ~resChan.closed
  /\ Send(result(rowsData[rows.pos]))
  /\ pc' = "next"
  /\ UNCHANGED <<rowsData, emailVerdict, writeToStdout, resultsFile, consumer,
                 rows, ret, sink, stdoutOut, fileOut, logged, srcErr, vIn, vOut, firstRun, store>>

\* Lines 133-146: the cursor is closed; its error is returned, and otherwise
\* resChan is closed and nil is returned.
CloseRows ==
  /\ pc = "close"
  /\ \E o \in RowsClose(rows) :
       /\ rows' = o.rows
       /\ ret' = o.err
       /\ IF o.err # Nil
            THEN /\ srcErr' = [op |-> "close", row |-> 0]
                 /\ resChan' = resChan
            ELSE /\ srcErr' = srcErr
                 /\ resChan' = IF resChan.isNil THEN resChan ELSE [resChan EXCEPT !.closed = TRUE]
  /\ pc' = "returned"
  /\ UNCHANGED <<rowsData, emailVerdict, writeToStdout, resultsFile, consumer,
                 received, sink, stdoutOut, fileOut, logged, sent, vIn, vOut, firstRun, store>>

(* --------------------------- the tap's consumer ------------------------ *)

\* The consumer receives the next buffered result, or finds the channel
\* closed and drained and ends its loop.
ConsumerReceive ==
  /\ consumer = "receiving"
  /\ IF resChan.buf # <<>>
       THEN /\ received' = Append(received, Head(resChan.buf))
            /\ resChan' = [resChan EXCEPT !.buf = Tail(@)]
            /\ consumer' = consumer
       ELSE /\ resChan.closed
            /\ consumer' = "done"
            /\ UNCHANGED <<received, resChan>>
  /\ UNCHANGED <<rowsData, emailVerdict, writeToStdout, resultsFile, pc, rows, ret,
                 sink, stdoutOut, fileOut, logged, srcErr, sent, vIn, vOut, firstRun, store>>

\* The consumer stops receiving for good.
ConsumerStop ==
  /\ consumer = "receiving"
  /\ consumer' = "stopped"
  /\ UNCHANGED <<rowsData, emailVerdict, writeToStdout, resultsFile, resChan, received,
                 pc, rows, ret, sink, stdoutOut, fileOut, logged, srcErr, sent, vIn, vOut, firstRun, store>>

(* --------------------------- specifications ---------------------------- *)

RECURSIVE SeqsUpTo(_, _)
\* The sequences over S of length at most n.
SeqsUpTo(S, n) ==
  IF n = 0 THEN {<<>>}
  ELSE LET shorter == SeqsUpTo(S, n - 1)
       IN shorter \cup {Append(q, x) : q \in {r \in shorter : Len(r) = n - 1}, x \in S}

\* The result sets of the audit query: row k has the id IdBase + k.
ResultSets ==
  {[k \in 1..Len(ps) |-> [id |-> IdBase + k, contact |-> ps[k], createdAt |-> CreatedAt]] :
     ps \in SeqsUpTo(Payloads, MaxRows)}

\* The channels run may be handed: none, unbuffered, or buffered.
Channels ==
  {[isNil |-> TRUE, cap |-> 0, buf |-> <<>>, closed |-> FALSE]}
    \cup {[isNil |-> FALSE, cap |-> c, buf |-> <<>>, closed |-> FALSE] : c \in 0..MaxChanCap}

\* The verdicts of policy.ValidEmail the runs are checked with.
RunVerdicts ==
  {[a \in Addresses |-> IF a \in R THEN ErrNotAnAddress ELSE Nil] :
     R \in {{}, {<<"x">>}}}

\* A store whose audit query returns the rows: each row is a registration
\* with one certificate.
StoreOf(rd) ==
  [registrations |-> rd,
   certificates |-> [k \in 1..Len(rd) |-> [registrationID |-> rd[k].id]]]

\* No earlier run.
NoRun == [done |-> FALSE, sink |-> <<>>, ret |-> Nil, srcErr |-> [op |-> "none", row |-> 0]]

Init ==
  /\ rowsData \in ResultSets
  /\ emailVerdict \in RunVerdicts
  /\ writeToStdout \in BOOLEAN
  /\ resultsFile \in BOOLEAN
  /\ resChan \in Channels
  \* main hands run no channel; a caller that collects the results over a
  \* channel runs the auditor with the results file as its one destination
  /\ ~resChan.isNil => (~writeToStdout /\ resultsFile)
  /\ consumer = IF resChan.isNil THEN "none" ELSE "receiving"
  /\ received = <<>>
  /\ pc = "start"
  /\ rows = NoRows
  /\ ret = Nil
  /\ sink = <<>>
  /\ stdoutOut = <<>>
  /\ fileOut = <<>>
  /\ logged = <<>>
  /\ srcErr = [op |-> "none", row |-> 0]
  /\ sent = <<>>
  /\ vIn = [id |-> IdBase + 1, createdAt |-> CreatedAt, contacts |-> <<>>]
  /\ vOut = Nil
  /\ firstRun = NoRun
  /\ store = StoreOf(rowsData)
  /\ rowsData \in Orderings(AuditQuery(store))

\* The steps of run.
RunNext == BeginAuditQuery \/ LoopNext \/ LoopBody \/ LoopSend \/ CloseRows

Next == RunNext \/ ConsumerReceive \/ ConsumerStop

Spec == Init /\ [][Next]_vars

\* run's goroutine takes a step whenever it can, and so does a consumer that
\* is receiving; nothing keeps the consumer from stopping.
FairSpec == Spec /\ WF_vars(RunNext) /\ WF_vars(ConsumerReceive)

(* ---------------------- validateContacts on its own -------------------- *)

\* validateContacts is called on vIn.
Validate ==
  /\ pc = "validate"
  /\ vOut' = validateContacts(vIn.id, vIn.createdAt, vIn.contacts)
  /\ pc' = "validated"
  /\ UNCHANGED <<rowsData, emailVerdict, writeToStdout, resultsFile, resChan, consumer,
                 received, rows, ret, sink, stdoutOut, fileOut, logged, srcErr, sent, vIn, firstRun, store>>

\* Every contact list up to MaxContacts over ContactStrings, under every
\* verdict of policy.ValidEmail on every address.
ValidateInit ==
  /\ vIn \in [id : {IdBase + 1}, createdAt : {CreatedAt},
              contacts : SeqsUpTo(ContactStrings, MaxContacts)]
  /\ emailVerdict \in [Addresses -> Verdicts]
  /\ vOut = Nil
  /\ pc = "validate"
  /\ rowsData = <<>>
  /\ writeToStdout = FALSE
  /\ resultsFile = FALSE
  /\ resChan = [isNil |-> TRUE, cap |-> 0, buf |-> <<>>, closed |-> FALSE]
  /\ consumer = "none"
  /\ received = <<>>
  /\ rows = NoRows
  /\ ret = Nil
  /\ sink = <<>>
  /\ stdoutOut = <<>>
  /\ fileOut = <<>>
  /\ logged = <<>>
  /\ srcErr = [op |-> "none", row |-> 0]
  /\ sent = <<>>
  /\ firstRun = NoRun
  /\ store = StoreOf(<<>>)

ValidateSpec == ValidateInit /\ [][Validate]_vars

(* -------------------------- the auditor run twice ---------------------- *)

\* The auditor is run again once its first run has returned: the first run's
\* calls of writeResults, return value and source outcome are kept, and the
\* second run starts with a new cursor on the same store and with empty
\* destinations.
Rerun ==
  /\ pc = "returned"
  /\ ~firstRun.done
  /\ firstRun' = [done |-> TRUE, sink |-> sink, ret |-> ret, srcErr |-> srcErr]
  /\ pc' = "start"
  /\ rows' = NoRows
  /\ ret' = Nil
  /\ sink' = <<>>
  /\ stdoutOut' = <<>>
  /\ fileOut' = <<>>
  /\ logged' = <<>>
  /\ srcErr' = [op |-> "none", row |-> 0]
  /\ sent' = <<>>
  /\ UNCHANGED <<rowsData, emailVerdict, writeToStdout, resultsFile, resChan, consumer,
                 received, vIn, vOut, store>>

\* main runs the auditor without a channel.
TwiceInit == Init /\ resChan.isNil

TwiceNext == BeginAuditQuery \/ LoopNext \/ LoopBody \/ CloseRows \/ Rerun

TwiceSpec == TwiceInit /\ [][TwiceNext]_vars

(* ------------------------ the audit query on its own ------------------- *)

\* What the contact column of a registration can hold.
SqlContacts == {SqlNull} \cup EmptySentinels \cup {PayloadGood, PayloadNumber}

\* The stores: up to MaxRows registrations, the k-th with the id IdBase + k,
\* and up to MaxCertificates certificates, each of one of the registrations.
Stores ==
  UNION {{[registrations |-> [k \in 1..n |-> [id |-> IdBase + k, contact |-> cs[k],
                                               createdAt |-> CreatedAt]],
           certificates |-> [j \in 1..Len(owners) |-> [registrationID |-> owners[j]]]] :
            cs \in [1..n -> SqlContacts],
            owners \in SeqsUpTo({IdBase + k : k \in 1..MaxRows}, MaxCertificates)} :
         n \in 0..MaxRows}

\* beginAuditQuery: the query is executed on the store and the cursor hands
\* out its rows in some order.
Query ==
  /\ pc = "query"
  /\ rowsData' \in Orderings(AuditQuery(store))
  /\ pc' = "queried"
  /\ UNCHANGED <<emailVerdict, writeToStdout, resultsFile, resChan, consumer, received,
                 rows, ret, sink, stdoutOut, fileOut, logged, srcErr, sent, vIn, vOut,
                 firstRun, store>>

QueryInit ==
  /\ store \in Stores
  /\ \A j \in DOMAIN store.certificates :
       \E i \in DOMAIN store.registrations :
         store.registrations[i].id = store.certificates[j].registrationID
  /\ rowsData = <<>>
  /\ pc = "query"
  /\ emailVerdict \in RunVerdicts
  /\ writeToStdout = FALSE
  /\ resultsFile = FALSE
  /\ resChan = [isNil |-> TRUE, cap |-> 0, buf |-> <<>>, closed |-> FALSE]
  /\ consumer = "none"
  /\ received = <<>>
  /\ rows = NoRows
  /\ ret = Nil
  /\ sink = <<>>
  /\ stdoutOut = <<>>
  /\ fileOut = <<>>
  /\ logged = <<>>
  /\ srcErr = [op |-> "none", row |-> 0]
  /\ sent = <<>>
  /\ vIn = [id |-> IdBase + 1, createdAt |-> CreatedAt, contacts |-> <<>>]
  /\ vOut = Nil
  /\ firstRun = NoRun

QuerySpec == QueryInit /\ [][Query]_vars

(* ----------------- a run without a channel, then one with -------------- *)

\* The auditor is run again once its first run, without a channel, has
\* returned; the second run is handed a channel with a consumer that
\* receives.
RerunWithTap ==
  /\ pc = "returned"
  /\ ~firstRun.done
  /\ firstRun' = [done |-> TRUE, sink |-> sink, ret |-> ret, srcErr |-> srcErr]
  /\ resChan' \in {c \in Channels : ~c.isNil}
  /\ consumer' = "receiving"
  /\ received' = <<>>
  /\ pc' = "start"
  /\ rows' = NoRows
  /\ ret' = Nil
  /\ sink' = <<>>
  /\ stdoutOut' = <<>>
  /\ fileOut' = <<>>
  /\ logged' = <<>>
  /\ srcErr' = [op |-> "none", row |-> 0]
  /\ sent' = <<>>
  /\ UNCHANGED <<rowsData, emailVerdict, writeToStdout, resultsFile, vIn, vOut, store>>

\* The first run is handed no channel; the results file is the destination.
TapInit == Init /\ resChan.isNil /\ ~writeToStdout /\ resultsFile

\* The consumer of the second run never stops receiving.
TapNext == RunNext \/ ConsumerReceive \/ RerunWithTap

TapSpec == TapInit /\ [][TapNext]_vars

(* ------------------------------ properties ----------------------------- *)

\* run has returned.
Returned == pc = "returned"

\* A per-row read failed: the cursor advance or the Scan of the fetched row.
RowReadFailed == srcErr.op \in {"next", "scan"}

\* C1 (as claimed): once a per-row read has failed, by rows.Next stopping on
\* a store error or by rows.Scan failing, run returns a non-nil error.
C1_RowReadErrorFailsRun == (Returned /\ RowReadFailed) => ret # Nil

\* C2 (as claimed): run returns nil exactly when the query opened, every row
\* was read without a source error and the cursor closed without error.
C2_NilIffNoSourceError == Returned => (ret = Nil <=> srcErr.op = "none")

\* The calls of writeResults that hand over the texts of row n.
SinkEntries(n, texts) == [i \in 1..Len(texts) |-> [row |-> n, text |-> texts[i]]]

RECURSIVE SinkOfRows(_)
\* What the sink holds once rows 1..n have been processed completely.
SinkOfRows(n) ==
  IF n = 0 THEN <<>>
  ELSE SinkOfRows(n - 1) \o SinkEntries(n, rowTexts(rowsData[n]))

\* C3: from the moment the source fails on row N on, the sink holds exactly
\* the texts of rows 1..N-1, in order, and no row after N has been fetched.
C3_AbortKeepsEarlierRowsOnly ==
  RowReadFailed =>
    /\ sink = SinkOfRows(srcErr.row - 1)
    /\ rows.pos <= srcErr.row

\* C3's case: run has returned after the Scan of the second row failed, and
\* the first row's texts are in the sink.
C3_Witness ==
  /\ Returned
  /\ srcErr = [op |-> "scan", row |-> 2]
  /\ sink # <<>>

\* C5 (as claimed): when run returns, a cursor that was opened is closed.
C5_CursorClosedOnReturn == (Returned /\ rows.open) => rows.closed

\* C7 (as claimed): when run returns, the channel it was handed is closed.
C7_ChannelClosedOnReturn == (Returned /\ ~resChan.isNil) => resChan.closed

(* --------------------------- reading the texts ------------------------- *)

RECURSIVE IndexFrom(_, _, _)
\* The first position of s from i on that holds sep, or 0.
IndexFrom(s, sep, i) ==
  IF i > Len(s) THEN 0 ELSE IF s[i] = sep THEN i ELSE IndexFrom(s, sep, i + 1)

RECURSIVE Split(_, _)

\* The pieces of s, the first of which ends before position i.
SplitAt(s, sep, i) ==
  IF i = 0 THEN <<s>>
  ELSE <<SubSeq(s, 1, i - 1)>> \o Split(SubSeq(s, i + 1, Len(s)), sep)

\* The pieces of s between the occurrences of sep.
Split(s, sep) == SplitAt(s, sep, IndexFrom(s, sep, 1))

\* A sequence without its last element.
Front(q) == SubSeq(q, 1, Len(q) - 1)

\* The newline-terminated lines of a text, without their newlines.
Lines(text) == Front(Split(text, NL))

\* The k-th tab-separated field of a line.
Field(line, k) == Split(line, TAB)[k]

\* The category of a line: its third field.
Category(line) == Field(line, 3)

\* The text is one newline-terminated line of the category.
OneLineOf(text, category) ==
  /\ LineCount(text) = 1
  /\ text[Len(text)] = NL
  /\ Category(Front(text)) = category

\* The payload of row k does not decode.
Undecodable(k) == JsonUnmarshal(rowsData[k].contact).err # Nil

\* The step is run's iteration over the row the cursor stands on, and the
\* Scan of the row succeeded.
BodyStep == pc = "scan" /\ pc' # "scan" /\ srcErr' = srcErr

\* C4: the iteration over a row whose payload does not decode writes exactly
\* one text, a single line of category unmarshal, returns no error and goes on
\* to the send or to the next rows.Next().
C4_UndecodableRowOneUnmarshalLine ==
  [][(BodyStep /\ Undecodable(rows.pos)) =>
       /\ Len(sink') = Len(sink) + 1
       /\ SubSeq(sink', 1, Len(sink)) = sink
       /\ sink'[Len(sink')].row = rows.pos
       /\ OneLineOf(sink'[Len(sink')].text, UnmarshalTag)
       /\ ret' = Nil
       /\ pc' \in {"next", "send"}]_vars

\* C4's case: the first row did not decode, its line is written, and the
\* second row has been fetched.
C4_Witness ==
  /\ pc = "scan"
  /\ rows.pos = 2
  /\ Undecodable(1)
  /\ Len(sink) = 1
  /\ OneLineOf(sink[1].text, UnmarshalTag)

RowsDone ==
  IF pc \in {"scan", "send"} \/ srcErr.op = "scan" THEN rows.pos - 1 ELSE rows.pos

\* C8 (as claimed): every record put on the channel is one whose payload
\* decoded.
C8_OnlyDecodedRecordsSent ==
  \A i \in 1..Len(sent) :
    \E k \in 1..Len(rowsData) : rowsData[k].id = sent[i].id /\ ~Undecodable(k)

\* The contacts json.Unmarshal decodes from the payload of row k, none when
\* it fails.
DecodedContacts(k) ==
  IF Undecodable(k) THEN <<>> ELSE JsonUnmarshal(rowsData[k].contact).contacts

\* C8 (amended): the records put on the channel are the rows scanned so far,
\* one each in the order read, a row whose payload did not decode included
\* (with no contacts); the consumer has received a prefix of them and the
\* rest is in the buffer.
C8_EveryScannedRowSent ==
  ~resChan.isNil =>
    /\ sent = [k \in 1..RowsDone |->
                 [id |-> rowsData[k].id, contacts |-> DecodedContacts(k),
                  createdAt |-> rowsData[k].createdAt]]
    /\ received \o resChan.buf = sent

\* C8's case: a row whose payload did not decode was received by the
\* consumer, after a row whose payload decoded.
C8_Witness ==
  /\ Len(received) = 2
  /\ ~Undecodable(1)
  /\ Undecodable(2)
  /\ received[2].id = rowsData[2].id

\* The contact fails a rule: it lacks the prefix, or policy.ValidEmail
\* rejects what follows the prefix.
Fails(contact) ==
  \/ ~HasPrefix(contact, MailtoPrefix)
  \/ emailVerdict[TrimPrefix(contact, MailtoPrefix)] # Nil

RECURSIVE Failing(_)
\* The failing contacts of a list, in the order of the list.
Failing(contacts) ==
  IF contacts = <<>> THEN <<>>
  ELSE (IF Fails(Head(contacts)) THEN <<Head(contacts)>> ELSE <<>>) \o Failing(Tail(contacts))

\* validateContacts has returned.
Validated == pc = "validated"

\* The i-th line of the error is a validation line about the contact.
LineIsAbout(line, contact) ==
  /\ Len(Split(line, TAB)) = 5
  /\ Category(line) = ValidationTag
  /\ Field(line, 4) = Quote(contact)

\* The lines are about the contacts, one line each, in order.
LinesAreAbout(lines, contacts) ==
  /\ Len(lines) = Len(contacts)
  /\ \A i \in 1..Len(lines) : LineIsAbout(lines[i], contacts[i])

\* C9: validateContacts returns nil iff no contact of the list fails a rule;
\* otherwise it returns one error with as many newline-terminated lines as
\* there are failing contacts, the i-th line about the i-th failing contact.
C9_OneLinePerFailingContact ==
  Validated =>
    IF Failing(vIn.contacts) = <<>> THEN vOut = Nil
    ELSE /\ vOut # Nil
         /\ vOut[Len(vOut)] = NL
         /\ LineCount(vOut) = Len(Failing(vIn.contacts))
         /\ LinesAreAbout(Lines(vOut), Failing(vIn.contacts))

\* C9's case: a list with two failing contacts, the same contact twice, one
\* of them holding a newline and a quote, gave an error.
C9_Witness ==
  /\ Validated
  /\ vIn.contacts = <<ContactQuote, ContactQuote>>
  /\ vOut # Nil

\* The contacts of the list that lack the prefix, in the order of the list.
Unprefixed(contacts) == SelectSeq(contacts, LAMBDA c : ~HasPrefix(c, MailtoPrefix))

\* The lines whose contact field is that of a contact without the prefix.
UnprefixedLines(lines) ==
  SelectSeq(lines, LAMBDA l : \E c \in ContactStrings :
                                ~HasPrefix(c, MailtoPrefix) /\ Field(l, 4) = Quote(c))

\* The text of an error, none for nil.
ErrorText(err) == IF err = Nil THEN <<>> ELSE err

\* The lines are about the contacts, one line each in order, and each gives
\* the missing prefix as its reason.
MissingPrefixLines(lines, contacts) ==
  /\ LinesAreAbout(lines, contacts)
  /\ \A i \in 1..Len(lines) : Field(lines[i], 5) = Quote(MissingPrefixMsg)

\* C10: each contact that lacks the prefix mailto: gets exactly one line, of
\* category validation and with the reason missing 'mailto:' prefix, whatever
\* policy.ValidEmail answers on any string.
C10_MissingPrefixLine ==
  Validated =>
    MissingPrefixLines(UnprefixedLines(Lines(ErrorText(vOut))), Unprefixed(vIn.contacts))

\* C10's case: a contact without the prefix that policy.ValidEmail rejects,
\* and one that it accepts, have been validated.
C10_Witness ==
  /\ Validated
  /\ vIn.contacts = <<ContactBare, ContactTel>>
  /\ emailVerdict[ContactBare] = Nil
  /\ emailVerdict[ContactTel] # Nil
  /\ LineCount(vOut) = 2

\* The contact has the prefix and policy.ValidEmail rejects what follows it.
BadAddress(contact) ==
  /\ HasPrefix(contact, MailtoPrefix)
  /\ emailVerdict[TrimPrefix(contact, MailtoPrefix)] # Nil

\* The contacts of the list with the prefix and a rejected address, in the
\* order of the list.
Rejected(contacts) == SelectSeq(contacts, BadAddress)

\* The lines that are not about a contact without the prefix.
OtherLines(lines) ==
  SelectSeq(lines, LAMBDA l : ~\E c \in ContactStrings :
                                ~HasPrefix(c, MailtoPrefix) /\ Field(l, 4) = Quote(c))

\* The lines are about the contacts, one line each in order, and each gives
\* the message of policy.ValidEmail on the contact's address as its reason.
RejectedLines(lines, contacts) ==
  /\ LinesAreAbout(lines, contacts)
  /\ \A i \in 1..Len(lines) :
       Field(lines[i], 5) = Quote(emailVerdict[TrimPrefix(contacts[i], MailtoPrefix)])

\* C11: each contact with the prefix mailto: whose address policy.ValidEmail
\* rejects gets exactly one line, of category validation, that carries the
\* contact with its prefix and the message of policy.ValidEmail as its reason.
C11_RejectedAddressLine ==
  Validated => RejectedLines(OtherLines(Lines(ErrorText(vOut))), Rejected(vIn.contacts))

\* C11's case: a contact with the prefix whose address is rejected with a
\* message that holds a newline, next to one whose address is accepted.
C11_Witness ==
  /\ Validated
  /\ vIn.contacts = <<ContactBad, ContactGood>>
  /\ emailVerdict[TrimPrefix(ContactBad, MailtoPrefix)] = ErrForbidden
  /\ emailVerdict[TrimPrefix(ContactGood, MailtoPrefix)] = Nil
  /\ LineCount(vOut) = 1

\* The payload of row k decodes to a list in which every contact has the
\* prefix mailto: and an address that policy.ValidEmail accepts.
Clean(k) ==
  /\ ~Undecodable(k)
  /\ \A i \in 1..Len(DecodedContacts(k)) : ~Fails(DecodedContacts(k)[i])

\* The texts handed to writeResults so far.
SinkTexts == {sink[i].text : i \in 1..Len(sink)}

\* C12: no call of writeResults is made for a row whose payload decodes to
\* contacts that all have the prefix and an accepted address, and so nothing
\* reaches a destination for it.
C12_CleanRowWritesNothing ==
  /\ \A i \in 1..Len(sink) : ~Clean(sink[i].row)
  /\ \A i \in 1..Len(stdoutOut) : stdoutOut[i] \in SinkTexts
  /\ \A i \in 1..Len(fileOut) : fileOut[i] \in SinkTexts

\* C12's case: the iteration over a first row of accepted contacts is over,
\* the second row is fetched, and nothing was written.
C12_Witness ==
  /\ pc = "scan"
  /\ rows.pos = 2
  /\ Clean(1)
  /\ DecodedContacts(1) # <<>>
  /\ sink = <<>>

RECURSIVE IsSubseq(_, _)
\* The elements of s occur in t in the order of s.
IsSubseq(s, t) ==
  IF s = <<>> THEN TRUE
  ELSE IF t = <<>> THEN FALSE
  ELSE IF Head(s) = Head(t) THEN IsSubseq(Tail(s), Tail(t))
  ELSE IsSubseq(s, Tail(t))

\* The number of failed writes the logger reported for the destination.
FailedWrites(dest) == Cardinality({i \in 1..Len(logged) : logged[i] = dest})

\* What the destination holds accounts for every call of writeResults: when
\* the destination is active, each text handed over is in it or its write
\* was reported as failed, and the texts it holds are in the order of the
\* calls; when it is not active, nothing is written or reported.
Accounted(active, dest, out) ==
  IF active
    THEN /\ Len(out) + FailedWrites(dest) = Len(sink)
         /\ IsSubseq(out, [i \in 1..Len(sink) |-> sink[i].text])
    ELSE out = <<>> /\ FailedWrites(dest) = 0

\* C13: every text handed to writeResults is offered to stdout when
\* writeToStdout is set and to the file when resultsFile is non-nil, in the
\* order of the calls; a failed write costs that destination that text only,
\* and the step that reports a failed write neither returns from run nor
\* sets an error.
C13_EveryDestinationOfferedEveryLine ==
  /\ [](Accounted(writeToStdout, "stdout", stdoutOut) /\ Accounted(resultsFile, "file", fileOut))
  /\ [][logged' # logged => (pc' \in {"next", "send"} /\ ret' = Nil)]_vars

\* C13's case: with both destinations active the write of the first text to
\* stdout failed, the file holds it, the second text is on both, and run
\* returned nil.
C13_Witness ==
  /\ Returned
  /\ ret = Nil
  /\ writeToStdout
  /\ resultsFile
  /\ Len(sink) = 2
  /\ logged = <<"stdout">>
  /\ stdoutOut = <<sink[2].text>>
  /\ fileOut = <<sink[1].text, sink[2].text>>

\* The number of rows whose texts run has written: every row fetched, but for
\* the one that is being scanned or whose Scan failed.
RowsWritten ==
  IF pc = "scan" \/ srcErr.op = "scan" THEN rows.pos - 1 ELSE rows.pos

\* C14: at every point of the loop, and so whenever a row is read, the sink
\* holds exactly the texts of the rows read before, complete and grouped by
\* row in the order the rows were read, and within one row a text of
\* category validation never comes before one of category unmarshal.
C14_SinkGroupedByRowInReadOrder ==
  /\ sink = SinkOfRows(RowsWritten)
  /\ \A i, j \in 1..Len(sink) :
       i < j =>
         /\ sink[i].row <= sink[j].row
         /\ sink[i].row = sink[j].row =>
              ~(Category(sink[i].text) = ValidationTag /\ Category(sink[j].text) = UnmarshalTag)

\* C14's case: the second row is read while the sink holds the two lines of
\* the first row, whose payload decoded to two failing contacts.
C14_Witness ==
  /\ pc = "scan"
  /\ rows.pos = 2
  /\ Len(sink) = 1
  /\ sink[1].row = 1
  /\ LineCount(sink[1].text) = 2

Queried == pc = "queried"

\* The ids of the rows the query returned.
ReturnedIds == {rowsData[i].id : i \in 1..Len(rowsData)}

\* The registration's contact is present and is neither '[]' nor 'null'.
HasContacts(r) == r.contact # SqlNull /\ r.contact \notin EmptySentinels

\* The registration has a certificate.
HasCertificate(r) ==
  \E j \in DOMAIN store.certificates : store.certificates[j].registrationID = r.id

\* The registrations of the store that satisfy P.
RegistrationsWhere(P(_)) ==
  {store.registrations[i] : i \in {k \in DOMAIN store.registrations : P(store.registrations[k])}}

\* The rows are the registrations of R, each once, with the columns of the
\* registration.
RowsAre(R) ==
  /\ Len(rowsData) = Cardinality(R)
  /\ {rowsData[i] : i \in 1..Len(rowsData)} = R

\* C16 (as claimed): the query returns every registration whose contact is
\* present and is neither '[]' nor 'null', each once, and no other.
C16_EveryRegistrationWithContacts ==
  Queried => RowsAre(RegistrationsWhere(HasContacts))

\* C16 (amended): the query returns the registrations that have at least
\* one certificate and whose contact is present and is neither '[]' nor
\* 'null', each once however many certificates it has, and no other.
C16_CertifiedRegistrationsWithContacts ==
  Queried => RowsAre(RegistrationsWhere(LAMBDA r : HasContacts(r) /\ HasCertificate(r)))

\* C16's case: of two registrations with contacts the one with two
\* certificates is returned, once, and the one without a certificate is not.
C16_Witness ==
  /\ Queried
  /\ Len(store.registrations) = 2
  /\ \A i \in 1..2 : HasContacts(store.registrations[i])
  /\ Len(store.certificates) = 2
  /\ \A j \in 1..2 : store.certificates[j].registrationID = store.registrations[1].id
  /\ rowsData = <<store.registrations[1]>>

\* What run reads and writes: its position, the cursor, its return value and
\* the texts written.
RunState == <<pc, rows, ret, sink, stdoutOut, fileOut, logged, srcErr>>

\* C17: without a channel run returns, with nil (Completed) or with an error
\* (Failed); once it has returned nothing of run changes any more, so no row
\* is read and no text written; and once a source operation has failed, run
\* fetches and scans no further row: it has returned, or it is about to
\* close the cursor and return.
C17_RunsToOneTerminalState ==
  /\ resChan.isNil => <>Returned
  /\ [][Returned => RunState' = RunState]_vars
  /\ [](srcErr.op # "none" => pc \in {"close", "returned"})
  /\ [][srcErr.op # "none" => (srcErr' = srcErr /\ rows'.pos = rows.pos)]_vars

\* C17's case: without a channel, the driver failed on fetching the second
\* row and run has returned with the first row's text written.
C17_Witness ==
  /\ Returned
  /\ resChan.isNil
  /\ srcErr = [op |-> "next", row |-> 2]
  /\ Len(sink) = 1

\* C18: a run that is handed a channel whose consumer keeps receiving, and
\* that meets the same source outcome as a run without a channel over the
\* same rows, has made the same calls of writeResults and returns the same
\* value; and a run without a channel sends nothing and closes nothing.
C18_TapLeavesAuditUnchanged ==
  /\ []((Returned /\ firstRun.done /\ srcErr = firstRun.srcErr) =>
          (sink = firstRun.sink /\ ret = firstRun.ret))
  /\ [](resChan.isNil => (sent = <<>> /\ resChan.buf = <<>> /\ ~resChan.closed))
  /\ [][(resChan.isNil /\ resChan'.isNil) => (sent' = sent /\ resChan' = resChan)]_vars

\* C18's case: after a run without a channel, a run with a channel sent both
\* rows, closed the channel and returned nil with the same texts written.
C18_Witness ==
  /\ Returned
  /\ firstRun.done
  /\ ~resChan.isNil
  /\ resChan.closed
  /\ Len(sent) = 2
  /\ ret = Nil
  /\ firstRun.ret = Nil
  /\ sink # <<>>
  /\ sink = firstRun.sink

\* The query failed to open.
OpenFailed == srcErr.op = "open"

\* C19: when the query fails to open, run has returned the query's error,
\* there is no cursor and no row was fetched, writeResults was not called and
\* no destination holds or was refused a text, and nothing was put on the
\* channel.
C19_OpenFailureReturnsAtOnce ==
  OpenFailed =>
    /\ Returned
    /\ ret = ErrQuery
    /\ rows = NoRows
    /\ sink = <<>>
    /\ stdoutOut = <<>> /\ fileOut = <<>> /\ logged = <<>>
    /\ sent = <<>> /\ received = <<>> /\ resChan.buf = <<>>

\* C19's case: the query failed to open on a store with rows to report, in a
\* run that was handed a channel.
C19_Witness ==
  /\ OpenFailed
  /\ Returned
  /\ ~resChan.isNil
  /\ Len(rowsData) = 2
  /\ Undecodable(1)

====
